---- MODULE Spec2Model ----
(***************************************************************************)
(* A model of the chunking miner: the strategy selection and dispatch of   *)
(* neurons/miner.py (Miner.__init__, Miner.forward, Miner.blacklist), the  *)
(* sentence-packing strategy of chunking/miners/punkt_miner.py and the     *)
(* model-backed strategy of chunking/miners/openai_miner.py with its       *)
(* @retry(tries=3, delay=1, backoff=2) wrapper.                            *)
(*                                                                         *)
(* Text is modelled by TLA+ strings: Len is len() and \o is +.             *)
(* Python's None is the empty set and a set value v is {v}, so that an     *)
(* Optional field is a set of at most one element.                         *)
(* Python list positions are 0-based, positions here are 1-based.          *)
(***************************************************************************)
EXTENDS Integers, Sequences, FiniteSets, TLC

(***************************************************************************)
(* Bounds of the inputs.                                                   *)
(***************************************************************************)
MaxSentences == 3
MaxChunkSize == 9
MaxNeurons == 2

\* The sentences the tokenizer may find in a document.
Vocabulary == {"Hi.", "Bye.", "Sentence one.", "Sentence two.", "Sentence three."}

ChunkSizes == (1..MaxChunkSize) \cup {15, 27, 100}
ChunkQtys == {1, 3}

None == {}
Some(v) == {v}
Value(opt) == CHOOSE v \in opt : TRUE

RECURSIVE JoinSentences(_)
JoinSentences(s) ==
    IF s = <<>> THEN ""
    ELSE IF Len(s) = 1 THEN s[1]
    ELSE s[1] \o " " \o JoinSentences(Tail(s))

SentenceSeqs == UNION {[1..n -> Vocabulary] : n \in 0..MaxSentences}

\* The documents of the model: the texts that tokenize to a sentence sequence.
Documents == {JoinSentences(s) : s \in SentenceSeqs}

\* The sentences of each document.
TokenTable == [d \in Documents |-> CHOOSE s \in SentenceSeqs : JoinSentences(s) = d]

\* nltk's sent_tokenize: the ordered sentences of a text ("" has none).
sent_tokenize(text) == TokenTable[text]

(***************************************************************************)
(* JSON text.                                                              *)
(***************************************************************************)
JsonString(s) == "\"" \o s \o "\""

RECURSIVE JsonItems(_)
JsonItems(list) ==
    IF list = <<>> THEN ""
    ELSE IF Len(list) = 1 THEN JsonString(list[1])
    ELSE JsonString(list[1]) \o ", " \o JsonItems(Tail(list))

JsonList(list) == "[" \o JsonItems(list) \o "]"

\* The dictionary literal of miner_process, in the order its keys are written.
response_data(s) ==
    << <<"document", JsonString(s.document)>>,
       <<"chunk_size", ToString(s.chunk_size)>>,
       <<"chunk_qty", ToString(s.chunk_qty)>>,
       <<"chunks", IF s.chunks = None THEN "null" ELSE JsonList(Value(s.chunks))>> >>

RECURSIVE JsonMembers(_)
JsonMembers(d) ==
    IF d = <<>> THEN ""
    ELSE IF Len(d) = 1 THEN JsonString(d[1][1]) \o ": " \o d[1][2]
    ELSE JsonString(d[1][1]) \o ": " \o d[1][2] \o ", " \o JsonMembers(Tail(d))

\* json.dumps of a dictionary: its members in insertion order.
json_dumps(d) == "{" \o JsonMembers(d) \o "}"

\* sr25519.sign(keypair, message): a signature that verifies for the public
\* key and the message; schnorrkel draws a fresh nonce for each signature.
sign(keypair, message, nonce) ==
    [public_key |-> keypair.public_key, message |-> message, nonce |-> nonce]

Nonces == {0, 1}

(***************************************************************************)
(* The external text-generation service.                                   *)
(***************************************************************************)
\* The chunk lists a response may carry for a document.
ChunkLists(doc) == {<<>>, <<"">>, <<doc>>, sent_tokenize(doc)}

AllChunkLists == UNION {ChunkLists(doc) : doc \in Documents}

ChunksObjectText(list) == "{" \o JsonString("chunks") \o ": " \o JsonList(list) \o "}"

\* What response.choices[0].message.content may be for a document.
ServiceContents(doc) ==
    {"not json", "{}"} \cup {ChunksObjectText(l) : l \in ChunkLists(doc)}

\* The chunk list each text of an object with the one key "chunks" denotes.
ParseTable ==
    [t \in {ChunksObjectText(l) : l \in AllChunkLists} |->
        CHOOSE l \in AllChunkLists : ChunksObjectText(l) = t]

\* json.loads: the object a text denotes, or a JSONDecodeError.
json_loads(text) ==
    IF text = "{}" THEN [ok |-> TRUE, object |-> <<>>]
    ELSE IF text \in DOMAIN ParseTable
         THEN [ok |-> TRUE, object |-> [chunks |-> ParseTable[text]]]
         ELSE [ok |-> FALSE, object |-> <<>>]

\* content.get("chunks", [])
get_chunks(content) == IF "chunks" \in DOMAIN content THEN content.chunks ELSE <<>>

(***************************************************************************)
(* State.                                                                  *)
(***************************************************************************)
VARIABLES
    handle,      \* the Miner object: config, strategy binding, model client, wallet
    synapse,     \* synapse[r]: the chunkSynapse of request r
    pc,          \* pc[r]: where request r is
    document,    \* document[r]: punkt miner_process's local list of sentences
    chunks,      \* chunks[r]: miner_process's local chunks
    response,    \* response[r]: the service's answer to the last call of r
    tries,       \* tries[r]: the retry wrapper's _tries
    delay,       \* delay[r]: the retry wrapper's _delay
    calls,       \* calls[r]: how many times r has called the service
    slept,       \* slept[r]: the delays r has waited in time.sleep, in order
    metagraph,   \* self.metagraph
    bl           \* the blacklist call: its caller's hotkey, position and result

vars == <<handle, synapse, pc, document, chunks, response, tries, delay, calls,
          slept, metagraph, bl>>

Requests == DOMAIN pc

MinerNames == {"punkt", "openai"}

\* Miner.__init__: the module a configuration binds.
miner_name(config) ==
    IF config.miner_name # None THEN Value(config.miner_name) ELSE "punkt"

TheWallet == [public_key |-> "pub", private_key |-> "priv"]

\* The Miner object after __init__ under a configuration.
NewMiner(config) ==
    [config |-> config,
     miner_process |-> miner_name(config),
     model |-> IF miner_name(config) = "openai" THEN Some("client") ELSE None,
     wallet |-> TheWallet]

\* A request as it arrives.
NewSynapse(doc, size, qty) ==
    [document |-> doc, chunk_size |-> size, chunk_qty |-> qty,
     chunks |-> None, miner_signature |-> None]

DefaultBlacklist ==
    [allow_non_registered |-> FALSE, force_validator_permit |-> FALSE, minimum_stake |-> 0]

NoMetagraph == [hotkeys |-> <<>>, validator_permit |-> <<>>, S |-> <<>>]

\* What a call of blacklist ends in: the pair it returns, or an exception.
Returns(flag, reason) == [raised |-> None, value |-> <<flag, reason>>]
Raises(exception) == [raised |-> Some(exception), value |-> <<>>]

NoCall == [hotkey |-> "", pc |-> "idle", result |-> Raises("")]

MinerConfigs == {None} \cup {Some(n) : n \in MinerNames}

Configs == [miner_name : MinerConfigs, blacklist : {DefaultBlacklist}]

InitRequests(reqs, docs, sizes, qtys) ==
    /\ handle \in {NewMiner(c) : c \in Configs}
    /\ synapse \in [reqs -> {NewSynapse(d, s, q) : d \in docs, s \in sizes, q \in qtys}]
    /\ pc = [r \in reqs |-> "forward"]
    /\ document = [r \in reqs |-> <<>>]
    /\ chunks = [r \in reqs |-> <<>>]
    /\ response = [r \in reqs |-> None]
    /\ tries = [r \in reqs |-> 0]
    /\ delay = [r \in reqs |-> 0]
    /\ calls = [r \in reqs |-> 0]
    /\ slept = [r \in reqs |-> <<>>]
    /\ metagraph = NoMetagraph
    /\ bl = NoCall

Init == InitRequests({1}, Documents, ChunkSizes, ChunkQtys)

(***************************************************************************)
(* Miner.forward                                                           *)
(***************************************************************************)
RetryTries == 3
RetryDelay == 1
RetryBackoff == 2

forward(r) ==
    /\ pc[r] = "forward"
    /\ IF handle.miner_process = "punkt"
       THEN /\ pc' = [pc EXCEPT ![r] = "tokenize"]
            /\ UNCHANGED <<tries, delay>>
       ELSE /\ pc' = [pc EXCEPT ![r] = "create"]
            /\ tries' = [tries EXCEPT ![r] = RetryTries]
            /\ delay' = [delay EXCEPT ![r] = RetryDelay]
    /\ UNCHANGED <<handle, synapse, document, chunks, response, calls, slept,
                   metagraph, bl>>

(***************************************************************************)
(* punkt_miner.miner_process                                               *)
(***************************************************************************)
\* A variant of punkt_tokenize: the sentence list is one list all requests share.
punkt_tokenize_shared(r) ==
    /\ pc[r] = "tokenize"
    /\ document' = [q \in Requests |-> sent_tokenize(synapse[r].document)]
    /\ chunks' = [chunks EXCEPT ![r] = <<>>]
    /\ pc' = [pc EXCEPT ![r] = "outer"]
    /\ UNCHANGED <<handle, synapse, response, tries, delay, calls, slept, metagraph, bl>>

\* document = sent_tokenize(synapse.document); chunks = []
punkt_tokenize(r) ==
    /\ pc[r] = "tokenize"
    /\ document' = [document EXCEPT ![r] = sent_tokenize(synapse[r].document)]
    /\ chunks' = [chunks EXCEPT ![r] = <<>>]
    /\ pc' = [pc EXCEPT ![r] = "outer"]
    /\ UNCHANGED <<handle, synapse, response, tries, delay, calls, slept, metagraph, bl>>

\* while len(document) > 0: chunks.append(document[0]); del document[0]
punkt_outer(r) ==
    /\ pc[r] = "outer"
    /\ IF Len(document[r]) > 0
       THEN /\ chunks' = [chunks EXCEPT ![r] = Append(chunks[r], document[r][1])]
            /\ document' = [document EXCEPT ![r] = Tail(document[r])]
            /\ pc' = [pc EXCEPT ![r] = "inner"]
       ELSE /\ pc' = [pc EXCEPT ![r] = "assign"]
            /\ UNCHANGED <<chunks, document>>
    /\ UNCHANGED <<handle, synapse, response, tries, delay, calls, slept, metagraph, bl>>

\* Variants of exceeds: the separating space left out of the length; the test
\* also true of a joined length equal to chunk_size.
exceeds_without_space(chunk, sentence, chunk_size) == Len(chunk \o sentence) > chunk_size

exceeds_or_fills(chunk, sentence, chunk_size) == Len(chunk \o " " \o sentence) >= chunk_size

\* len(chunks[-1] + " " + document[0]) > synapse.chunk_size
exceeds(chunk, sentence, chunk_size) == Len(chunk \o " " \o sentence) > chunk_size

\* A variant of punkt_inner: the sentence is popped before the test, so the one
\* that ends a chunk is lost.
punkt_inner_pop_first(r) ==
    /\ pc[r] = "inner"
    /\ IF Len(document[r]) > 0
       THEN /\ document' = [document EXCEPT ![r] = Tail(document[r])]
            /\ IF exceeds(chunks[r][Len(chunks[r])], document[r][1], synapse[r].chunk_size)
               THEN /\ pc' = [pc EXCEPT ![r] = "outer"]
                    /\ UNCHANGED chunks
               ELSE /\ chunks' = [chunks EXCEPT ![r][Len(chunks[r])] = @ \o " " \o document[r][1]]
                    /\ UNCHANGED pc
       ELSE /\ pc' = [pc EXCEPT ![r] = "outer"]
            /\ UNCHANGED <<chunks, document>>
    /\ UNCHANGED <<handle, synapse, response, tries, delay, calls, slept, metagraph, bl>>

\* The inner while: break, or chunks[-1] += " " + document.pop(0)
punkt_inner(r) ==
    /\ pc[r] = "inner"
    /\ IF Len(document[r]) > 0
       THEN IF exceeds(chunks[r][Len(chunks[r])], document[r][1], synapse[r].chunk_size)
            THEN /\ pc' = [pc EXCEPT ![r] = "outer"]
                 /\ UNCHANGED <<chunks, document>>
            ELSE /\ chunks' = [chunks EXCEPT ![r][Len(chunks[r])] = @ \o " " \o document[r][1]]
                 /\ document' = [document EXCEPT ![r] = Tail(document[r])]
                 /\ UNCHANGED pc
       ELSE /\ pc' = [pc EXCEPT ![r] = "outer"]
            /\ UNCHANGED <<chunks, document>>
    /\ UNCHANGED <<handle, synapse, response, tries, delay, calls, slept, metagraph, bl>>

\* synapse.chunks = chunks
punkt_assign(r) ==
    /\ pc[r] = "assign"
    /\ synapse' = [synapse EXCEPT ![r].chunks = Some(chunks[r])]
    /\ pc' = [pc EXCEPT ![r] = "sign"]
    /\ UNCHANGED <<handle, document, chunks, response, tries, delay, calls, slept,
                   metagraph, bl>>

\* synapse.miner_signature = sign(keypair, json.dumps(response_data)); return synapse
punkt_sign(r) ==
    /\ pc[r] = "sign"
    /\ \E nonce \in Nonces :
          synapse' = [synapse EXCEPT ![r].miner_signature =
                         Some(sign(handle.wallet, json_dumps(response_data(synapse[r])), nonce))]
    /\ pc' = [pc EXCEPT ![r] = "returned"]
    /\ UNCHANGED <<handle, document, chunks, response, tries, delay, calls, slept,
                   metagraph, bl>>

(***************************************************************************)
(* openai_miner.miner_process under @retry(tries=3, delay=1, backoff=2)    *)
(***************************************************************************)
TransportError == "<transport error>"

\* What one call of self.model.chat.completions.create may end in: the text
\* of the answer, or an exception of the client.
ServiceOutcomes(doc) == {TransportError} \cup ServiceContents(doc)

\* response = self.model.chat.completions.create(...)
openai_create(r) ==
    /\ pc[r] = "create"
    /\ \E outcome \in ServiceOutcomes(synapse[r].document) :
          /\ calls' = [calls EXCEPT ![r] = calls[r] + 1]
          /\ IF outcome = TransportError
             THEN /\ pc' = [pc EXCEPT ![r] = "except"]
                  /\ UNCHANGED response
             ELSE /\ pc' = [pc EXCEPT ![r] = "validate"]
                  /\ response' = [response EXCEPT ![r] = Some(outcome)]
    /\ UNCHANGED <<handle, synapse, document, chunks, tries, delay, slept, metagraph, bl>>

\* if not chunks: raise ValueError(...)
not_chunks(list) == list = <<>>

\* content = json.loads(...); chunks = content.get("chunks", []);
\* if not chunks: raise ValueError; synapse.chunks = chunks
openai_validate(r) ==
    /\ pc[r] = "validate"
    /\ LET loaded == json_loads(Value(response[r]))
           found == get_chunks(loaded.object)
       IN  IF ~loaded.ok
           THEN /\ pc' = [pc EXCEPT ![r] = "except"]
                /\ UNCHANGED <<chunks, synapse>>
           ELSE IF not_chunks(found)
           THEN /\ pc' = [pc EXCEPT ![r] = "except"]
                /\ chunks' = [chunks EXCEPT ![r] = found]
                /\ UNCHANGED synapse
           ELSE /\ pc' = [pc EXCEPT ![r] = "openai_sign"]
                /\ chunks' = [chunks EXCEPT ![r] = found]
                /\ synapse' = [synapse EXCEPT ![r].chunks = Some(found)]
    /\ UNCHANGED <<handle, document, response, tries, delay, calls, slept, metagraph, bl>>

\* A variant of openai_sign: the payload is built from the synapse as it was
\* before its chunks were assigned.
openai_sign_before_chunks(r) ==
    /\ pc[r] = "openai_sign"
    /\ \E nonce \in Nonces :
          synapse' = [synapse EXCEPT ![r].miner_signature =
                         Some(sign(handle.wallet,
                                   json_dumps(response_data([synapse[r] EXCEPT !.chunks = None])),
                                   nonce))]
    /\ pc' = [pc EXCEPT ![r] = "returned"]
    /\ UNCHANGED <<handle, document, chunks, response, tries, delay, calls, slept,
                   metagraph, bl>>

\* synapse.miner_signature = sign(keypair, json.dumps(response_data)); return synapse
openai_sign(r) ==
    /\ pc[r] = "openai_sign"
    /\ \E nonce \in Nonces :
          synapse' = [synapse EXCEPT ![r].miner_signature =
                         Some(sign(handle.wallet, json_dumps(response_data(synapse[r])), nonce))]
    /\ pc' = [pc EXCEPT ![r] = "returned"]
    /\ UNCHANGED <<handle, document, chunks, response, tries, delay, calls, slept,
                   metagraph, bl>>

\* A variant of retry_except: the exception is raised only once _tries is
\* below zero.
retry_except_late(r) ==
    /\ pc[r] = "except"
    /\ tries' = [tries EXCEPT ![r] = tries[r] - 1]
    /\ IF tries[r] - 1 < 0
       THEN /\ pc' = [pc EXCEPT ![r] = "raised"]
            /\ UNCHANGED <<slept, delay>>
       ELSE /\ slept' = [slept EXCEPT ![r] = Append(slept[r], delay[r])]
            /\ delay' = [delay EXCEPT ![r] = delay[r] * RetryBackoff]
            /\ pc' = [pc EXCEPT ![r] = "create"]
    /\ UNCHANGED <<handle, synapse, document, chunks, response, calls, metagraph, bl>>

\* A variant of retry_except: the delay grows by the backoff instead of being
\* multiplied by it.
retry_except_additive(r) ==
    /\ pc[r] = "except"
    /\ tries' = [tries EXCEPT ![r] = tries[r] - 1]
    /\ IF tries[r] - 1 = 0
       THEN /\ pc' = [pc EXCEPT ![r] = "raised"]
            /\ UNCHANGED <<slept, delay>>
       ELSE /\ slept' = [slept EXCEPT ![r] = Append(slept[r], delay[r])]
            /\ delay' = [delay EXCEPT ![r] = delay[r] + RetryBackoff]
            /\ pc' = [pc EXCEPT ![r] = "create"]
    /\ UNCHANGED <<handle, synapse, document, chunks, response, calls, metagraph, bl>>

\* The wrapper's handler of an exception of miner_process:
\*   _tries -= 1; if not _tries: raise; time.sleep(_delay); _delay *= backoff
retry_except(r) ==
    /\ pc[r] = "except"
    /\ tries' = [tries EXCEPT ![r] = tries[r] - 1]
    /\ IF tries[r] - 1 = 0
       THEN /\ pc' = [pc EXCEPT ![r] = "raised"]
            /\ UNCHANGED <<slept, delay>>
       ELSE /\ slept' = [slept EXCEPT ![r] = Append(slept[r], delay[r])]
            /\ delay' = [delay EXCEPT ![r] = delay[r] * RetryBackoff]
            /\ pc' = [pc EXCEPT ![r] = "create"]
    /\ UNCHANGED <<handle, synapse, document, chunks, response, calls, metagraph, bl>>

(***************************************************************************)
(* Miner.blacklist                                                         *)
(***************************************************************************)
Range(list) == {list[i] : i \in DOMAIN list}

\* list.index(x): the first position of x (ValueError when x is not in the list)
index(list, x) == CHOOSE i \in DOMAIN list : list[i] = x /\ \A j \in 1..(i - 1) : list[j] # x

blacklist ==
    /\ bl.pc = "blacklist"
    /\ LET hotkey == bl.hotkey
           config == handle.config.blacklist
           result ==
             IF hotkey \notin Range(metagraph.hotkeys)
             THEN Raises("ValueError")
             ELSE LET uid == index(metagraph.hotkeys, hotkey)
                  IN  IF hotkey = "" \/ hotkey \notin Range(metagraph.hotkeys)
                      THEN IF config.allow_non_registered
                           THEN Returns(FALSE, "Allowing un-registered hotkey")
                           ELSE Returns(TRUE, "Unrecognized hotkey")
                      ELSE IF ~metagraph.validator_permit[uid]
                      THEN IF config.force_validator_permit
                           THEN Returns(TRUE, "Non-validator hotkey")
                           ELSE Returns(FALSE, "Validator permit not required")
                      ELSE IF metagraph.S[uid] < config.minimum_stake
                      THEN Returns(TRUE, "Insufficient stake")
                      ELSE Returns(FALSE, "Hotkey recognized!")
       IN  bl' = [bl EXCEPT !.pc = "done", !.result = result]
    /\ UNCHANGED <<handle, synapse, pc, document, chunks, response, tries, delay,
                   calls, slept, metagraph>>

\* The callers' hotkeys; "" is a request that carries none.
RegisteredPool == {"hkA", "hkB", "hkC"}
Hotkeys == RegisteredPool \cup {""}
Stakes == {0, 10}
MinimumStakes == {0, 5}

\* The metagraphs of at most MaxNeurons neurons, each hotkey registered once.
Metagraphs ==
    UNION {
        {[hotkeys |-> h, validator_permit |-> v, S |-> s] :
            h \in {f \in [1..n -> RegisteredPool] : \A i, j \in 1..n : f[i] = f[j] => i = j},
            v \in [1..n -> BOOLEAN],
            s \in [1..n -> Stakes]} : n \in 0..MaxNeurons}

BlacklistConfigs ==
    [allow_non_registered : BOOLEAN, force_validator_permit : BOOLEAN,
     minimum_stake : MinimumStakes]

InitBlacklist ==
    /\ handle \in {NewMiner(c) : c \in [miner_name : {None}, blacklist : BlacklistConfigs]}
    /\ metagraph \in Metagraphs
    /\ bl \in {[hotkey |-> h, pc |-> "blacklist", result |-> Raises("")] : h \in Hotkeys}
    /\ synapse = <<>>
    /\ pc = <<>>
    /\ document = <<>>
    /\ chunks = <<>>
    /\ response = <<>>
    /\ tries = <<>>
    /\ delay = <<>>
    /\ calls = <<>>
    /\ slept = <<>>

NextBlacklist == blacklist

SpecBlacklist == InitBlacklist /\ [][NextBlacklist]_vars

(***************************************************************************)
(* Requests in flight together on one Miner.                               *)
(***************************************************************************)
ConcurrentRequests == {1, 2}
ConcurrentDocuments == {"Hi. Bye.", "Bye. Hi. Bye.", "Sentence one. Sentence two."}
ConcurrentSizes == {8, 15}
ConcurrentQtys == {1}

InitConcurrent ==
    InitRequests(ConcurrentRequests, ConcurrentDocuments, ConcurrentSizes, ConcurrentQtys)

Next ==
    \/ \E r \in Requests : forward(r)
    \/ \E r \in Requests : punkt_tokenize(r)
    \/ \E r \in Requests : punkt_outer(r)
    \/ \E r \in Requests : punkt_inner(r)
    \/ \E r \in Requests : punkt_assign(r)
    \/ \E r \in Requests : punkt_sign(r)
    \/ \E r \in Requests : openai_create(r)
    \/ \E r \in Requests : openai_validate(r)
    \/ \E r \in Requests : openai_sign(r)
    \/ \E r \in Requests : retry_except(r)

Spec == Init /\ [][Next]_vars

SpecConcurrent == InitConcurrent /\ [][Next]_vars


(***************************************************************************)
(* What the claims speak of.                                               *)
(***************************************************************************)
IsPunkt == handle.miner_process = "punkt"
IsOpenAI == handle.miner_process = "openai"

Returned(r) == pc[r] = "returned"

\* The chunks and the signature a returned request carries.
ReturnedChunks(r) == Value(synapse[r].chunks)
Signature(r) == Value(synapse[r].miner_signature)

\* The sentences of request r's document.
Sentences(r) == sent_tokenize(synapse[r].document)

\* The sentences cut after the positions of cutAfter: a sequence of groups of
\* consecutive sentences, in order.
RECURSIVE GroupsFrom(_, _, _, _)
GroupsFrom(sents, cutAfter, i, acc) ==
    IF i > Len(sents) THEN acc
    ELSE IF i = 1 \/ (i - 1) \in cutAfter
         THEN GroupsFrom(sents, cutAfter, i + 1, Append(acc, <<sents[i]>>))
         ELSE GroupsFrom(sents, cutAfter, i + 1,
                         [acc EXCEPT ![Len(acc)] = Append(@, sents[i])])

\* Every way of grouping consecutive sentences that keeps each sentence once
\* and in its place.
Groupings(sents) ==
    {GroupsFrom(sents, cutAfter, 1, <<>>) : cutAfter \in SUBSET (1..(Len(sents) - 1))}

\* The chunks of a grouping: each group joined by single spaces.
Joined(groups) == [k \in DOMAIN groups |-> JoinSentences(groups[k])]

\* The groupings the returned chunks of r are the joins of.
GroupingsOf(r) == {g \in Groupings(Sentences(r)) : Joined(g) = ReturnedChunks(r)}

\* C1: every chunk the rule-based strategy returns is at most chunk_size long,
\* except a chunk that is exactly one sentence itself longer than chunk_size,
\* which is that sentence unchanged.
C1_ChunkSizeBound ==
    \A r \in Requests :
        (IsPunkt /\ Returned(r)) =>
            \E g \in GroupingsOf(r) :
                \A k \in DOMAIN g :
                    \/ Len(ReturnedChunks(r)[k]) <= synapse[r].chunk_size
                    \/ /\ Len(g[k]) = 1
                       /\ ReturnedChunks(r)[k] = g[k][1]
                       /\ Len(g[k][1]) > synapse[r].chunk_size

\* A returned rule-based result with an oversized sentence on its own and a
\* chunk of two sentences within the bound.
C1_Witness ==
    \E r \in Requests :
        /\ IsPunkt /\ Returned(r)
        /\ synapse[r].document = "Sentence one. Hi. Bye."
        /\ synapse[r].chunk_size = 8
        /\ ReturnedChunks(r) = <<"Sentence one.", "Hi. Bye.">>

\* C2: a response is signed and returned only with a non-empty chunks list.
C2_NoEmptyResult ==
    \A r \in Requests :
        (Returned(r) \/ synapse[r].miner_signature # None) =>
            (synapse[r].chunks # None /\ ReturnedChunks(r) # <<>>)

\* C3: every chunk of a returned result has length > 0.
C3_NoEmptyChunk ==
    \A r \in Requests :
        Returned(r) => \A k \in DOMAIN ReturnedChunks(r) : Len(ReturnedChunks(r)[k]) > 0

\* The text of the object {document, chunk_size, chunk_qty, chunks} of a
\* synapse, its keys in that order.
PayloadOf(s) ==
    "{\"document\": \"" \o s.document \o "\", \"chunk_size\": " \o ToString(s.chunk_size)
        \o ", \"chunk_qty\": " \o ToString(s.chunk_qty)
        \o ", \"chunks\": " \o JsonList(Value(s.chunks)) \o "}"

\* C4: whenever a synapse carries a signature, its chunks are assigned and the
\* signature is the wallet's, over the text of document, chunk_size, chunk_qty,
\* chunks (in this order) with the values the synapse carries.
C4_SignatureCoversReturned ==
    \A r \in Requests :
        synapse[r].miner_signature # None =>
            /\ synapse[r].chunks # None
            /\ Signature(r).public_key = handle.wallet.public_key
            /\ Signature(r).message = PayloadOf(synapse[r])

\* A returned model-backed result of two chunks, signed.
C4_Witness ==
    \E r \in Requests :
        /\ IsOpenAI /\ Returned(r)
        /\ synapse[r].document = "Hi. Bye."
        /\ ReturnedChunks(r) = <<"Hi.", "Bye.">>
        /\ Signature(r).message =
             "{\"document\": \"Hi. Bye.\", \"chunk_size\": 8, \"chunk_qty\": 3, \"chunks\": [\"Hi.\", \"Bye.\"]}"

\* The answers that fail validation: unparsable, no "chunks", empty "chunks".
ValidationFailures == {"not json", "{}", "{\"chunks\": []}"}

\* At most 3 calls; a raised failure has exactly 3 behind it; no chunks and no
\* signature while the attempts go on or once they have failed.
C5_State ==
    \A r \in Requests :
        /\ calls[r] <= 3
        /\ pc[r] = "raised" =>
              /\ calls[r] = 3
              /\ synapse[r].chunks = None
              /\ synapse[r].miner_signature = None
        /\ pc[r] \in {"create", "validate", "except"} =>
              (synapse[r].chunks = None /\ synapse[r].miner_signature = None)

\* An answer that fails validation goes to the retry wrapper, which calls again
\* after the first and the second failure and raises the third.
C5_Step ==
    \A r \in Requests :
        /\ (pc[r] = "validate" /\ response[r] \subseteq ValidationFailures /\ pc'[r] # pc[r])
              => pc'[r] = "except"
        /\ (pc[r] = "except" /\ pc'[r] # pc[r])
              => IF calls[r] < 3 THEN pc'[r] = "create" ELSE pc'[r] = "raised"

\* C5: the model-backed strategy calls the service at most 3 times; an answer
\* that fails validation is never returned nor signed but handed to the retry
\* wrapper; the failure surfaces only after exactly 3 calls, with no chunks
\* and no signature on the synapse.
C5_RetryBound == [](C5_State) /\ [][C5_Step]_vars

\* The terminal failure after three answers, the last one {"chunks": []}.
C5_Witness ==
    \E r \in Requests :
        /\ pc[r] = "raised" /\ calls[r] = 3
        /\ response[r] = Some("{\"chunks\": []}")
        /\ synapse[r].miner_signature = None

\* C6 as stated: when every attempt fails, the delays waited are 1, 2, 4.
C6_DelaysOneTwoFour ==
    \A r \in Requests : pc[r] = "raised" => slept[r] = <<1, 2, 4>>

\* C6: when every one of the 3 attempts fails, the delays waited between the
\* attempts are 1, 2: the third failure is raised without a wait.
C6_DelaysOneTwo ==
    \A r \in Requests :
        /\ pc[r] = "raised" => slept[r] = <<1, 2>>
        /\ \E n \in 0..2 : slept[r] = SubSeq(<<1, 2>>, 1, n)

\* The terminal failure, after two waits.
C6_Witness ==
    \E r \in Requests : pc[r] = "raised" /\ Len(slept[r]) = 2 /\ delay[r] = 4

\* C7: the chunks the rule-based strategy returns are the sentences of the
\* document, each once and in order, grouped and joined by single spaces.
C7_Lossless ==
    \A r \in Requests :
        (IsPunkt /\ Returned(r)) =>
            /\ GroupingsOf(r) # {}
            /\ \A g \in GroupingsOf(r) :
                  /\ Len(g) = Len(ReturnedChunks(r))
                  /\ \A k \in DOMAIN g : g[k] # <<>>

\* Three sentences returned as two chunks.
C7_Witness ==
    \E r \in Requests :
        /\ IsPunkt /\ Returned(r)
        /\ Sentences(r) = <<"Bye.", "Hi.", "Sentence three.">>
        /\ ReturnedChunks(r) = <<"Bye. Hi.", "Sentence three.">>

\* The packing of a sentence sequence, one sentence at a time.
RECURSIVE Pack(_, _, _)
Pack(sents, size, acc) ==
    IF sents = <<>> THEN acc
    ELSE IF acc # <<>> /\ Len(acc[Len(acc)]) + 1 + Len(sents[1]) <= size
         THEN Pack(Tail(sents), size, [acc EXCEPT ![Len(acc)] = @ \o " " \o sents[1]])
         ELSE Pack(Tail(sents), size, Append(acc, sents[1]))

\* What request r gets when it is processed alone.
AloneChunks(r) ==
    IF IsPunkt THEN {Pack(Sentences(r), synapse[r].chunk_size, <<>>)}
    ELSE {l \in ChunkLists(synapse[r].document) : l # <<>>}

\* What a returned request carries is what it gets alone.
C8_State ==
    \A r \in Requests :
        Returned(r) =>
            /\ ReturnedChunks(r) \in AloneChunks(r)
            /\ Signature(r).public_key = TheWallet.public_key
            /\ Signature(r).message = PayloadOf(synapse[r])

\* C8: in every interleaving of the requests in flight, no step writes the
\* Miner object, and what a request returns is what it gets alone: its own
\* chunks, signed by the wallet over its own values.
C8_Concurrent == [](C8_State) /\ [][handle' = handle]_vars

\* Two requests for different documents, both returned.
C8_Witness ==
    /\ Requests = ConcurrentRequests
    /\ \A r \in Requests : Returned(r)
    /\ synapse[1].document = "Hi. Bye." /\ synapse[2].document = "Bye. Hi. Bye."
    /\ ReturnedChunks(1) # ReturnedChunks(2)

\* C9: the rule-based packing is greedy: a chunk of several sentences is at
\* most chunk_size long, and a chunk ends before a sentence only if joining
\* that sentence to it by one space would exceed chunk_size. So "Hi. Bye."
\* at chunk_size 100 is one chunk, and the sentences of lengths 13, 13, 15 at
\* chunk_size 15 are three.
C9_Greedy ==
    \A r \in Requests :
        (IsPunkt /\ Returned(r)) =>
            /\ \E g \in GroupingsOf(r) :
                  /\ \A k \in DOMAIN g :
                        Len(g[k]) > 1 => Len(ReturnedChunks(r)[k]) <= synapse[r].chunk_size
                  /\ \A k \in 1..(Len(g) - 1) :
                        Len(ReturnedChunks(r)[k]) + 1 + Len(g[k + 1][1]) > synapse[r].chunk_size
            /\ (synapse[r].document = "Hi. Bye." /\ synapse[r].chunk_size = 100)
                  => ReturnedChunks(r) = <<"Hi. Bye.">>
            /\ (synapse[r].document = "Sentence one. Sentence two. Sentence three."
                  /\ synapse[r].chunk_size = 15)
                  => ReturnedChunks(r) = <<"Sentence one.", "Sentence two.", "Sentence three.">>

\* The three sentences of lengths 13, 13, 15 returned at chunk_size 15.
C9_Witness ==
    \E r \in Requests :
        /\ IsPunkt /\ Returned(r)
        /\ synapse[r].document = "Sentence one. Sentence two. Sentence three."
        /\ synapse[r].chunk_size = 15
        /\ Len(ReturnedChunks(r)) = 3

\* C10: for a caller whose hotkey is not in the metagraph, blacklist returns
\* (True, "Unrecognized hotkey") when allow_non_registered is false and
\* (False, "Allowing un-registered hotkey") when it is true.
C10_UnregisteredDecided ==
    (bl.pc = "done" /\ bl.hotkey \notin Range(metagraph.hotkeys)) =>
        bl.result = IF handle.config.blacklist.allow_non_registered
                    THEN Returns(FALSE, "Allowing un-registered hotkey")
                    ELSE Returns(TRUE, "Unrecognized hotkey")

====
